---- MODULE Spec2Model ----
(***************************************************************************)
(* The TOON encoder of rag_techniques/utils.py: json_to_toon and its       *)
(* helpers, and the wrapper convert_json_to_toon; and the loop of app.py   *)
(* and summary_index_app.py that assembles the LLM context from the        *)
(* encodings of the retrieved records.                                     *)
(*                                                                         *)
(* Text is a sequence of one-character strings, so that quoting, escaping, *)
(* joining and parsing are computed character by character.  A Python      *)
(* object is a tagged record:                                              *)
(*   None -> [t |-> "null"]          bool -> [t |-> "bool", b |-> ...]     *)
(*   int  -> [t |-> "num", n |-> i]  str  -> [t |-> "str", s |-> text]     *)
(*   list -> [t |-> "arr", items |-> <<v1, ..., vn>>]                      *)
(*   dict -> [t |-> "obj", kv |-> << <<key1, v1>>, ... >>], the pairs in   *)
(*           insertion order and the keys (texts) pairwise distinct.       *)
(* Numbers are Python ints; floats are outside the model.                  *)
(***************************************************************************)
EXTENDS Integers, Sequences, FiniteSets, TLC

VARIABLES data, name, indent, text, op, encRes, valRes, textRes,
          wrapRes, bareRes, results, served, context, llmContext

vars == <<data, name, indent, text, op, encRes, valRes, textRes,
          wrapRes, bareRes, results, served, context, llmContext>>

\* the results of the two other calls on a named array
namedVars == <<wrapRes, bareRes>>

\* the state of the query glue
glueVars == <<results, served, context, llmContext>>

(***************************************************************************)
(* Bounds of the model.                                                    *)
(***************************************************************************)
\* longest string drawn over the full alphabet
MaxStrLen == 3
\* longest array drawn over the element set
MaxArrLen == 2
\* the indent levels a call is started at are 0, 2, ..., 2 * MaxLevel
MaxLevel == 1
\* most records a query retrieves
MaxRecords == 2

(***************************************************************************)
(* Text helpers: the str operations the code uses.                         *)
(***************************************************************************)
\* " " * n
Spaces(n) == [i \in 1..n |-> " "]

\* one decimal digit
Digit(d) == <<"0", "1", "2", "3", "4", "5", "6", "7", "8", "9">>[d + 1]

RECURSIVE NatStr(_)
NatStr(n) == IF n < 10 THEN <<Digit(n)>> ELSE NatStr(n \div 10) \o <<Digit(n % 10)>>

\* str(v) of a Python int
IntStr(n) == IF n < 0 THEN <<"-">> \o NatStr(0 - n) ELSE NatStr(n)

\* sep.join(parts)
RECURSIVE Join(_, _)
Join(parts, sep) ==
    IF parts = <<>> THEN <<>>
    ELSE IF Len(parts) = 1 THEN parts[1]
    ELSE parts[1] \o sep \o Join(Tail(parts), sep)

\* whether text s holds pattern p at position i
HasAt(s, p, i) == i + Len(p) - 1 <= Len(s) /\ SubSeq(s, i, i + Len(p) - 1) = p

\* s.replace(old, new) for a non-empty old: left to right, non-overlapping
RECURSIVE ReplaceFrom(_, _, _, _)
ReplaceFrom(s, old, new, i) ==
    IF i > Len(s) THEN <<>>
    ELSE IF HasAt(s, old, i) THEN new \o ReplaceFrom(s, old, new, i + Len(old))
    ELSE <<s[i]>> \o ReplaceFrom(s, old, new, i + 1)

Replace(s, old, new) == ReplaceFrom(s, old, new, 1)

\* str.isspace() of one character of the alphabet
IsSpace(c) == c \in {" ", "\t", "\n", "\r"}

(***************************************************************************)
(* The value model.                                                        *)
(***************************************************************************)
PyNone == [t |-> "null"]
PyBool(b) == [t |-> "bool", b |-> b]
PyInt(n) == [t |-> "num", n |-> n]
PyStr(s) == [t |-> "str", s |-> s]
PyList(items) == [t |-> "arr", items |-> items]
PyDict(kv) == [t |-> "obj", kv |-> kv]

\* list(d.keys())
DictKeys(d) == [i \in 1..Len(d.kv) |-> d.kv[i][1]]

\* d[c], for a key c of d
DictGet(d, c) == d.kv[CHOOSE i \in 1..Len(d.kv) : d.kv[i][1] = c][2]

(***************************************************************************)
(* utils.py: the helpers.                                                  *)
(***************************************************************************)
_is_primitive(x) == x.t \in {"null", "str", "num", "bool"}

\* _all_dicts_with_same_keys comparing the keys as sets, not in their order
AllDictsWithSameKeySet(lst) ==
    IF lst = <<>> THEN [ok |-> FALSE, keys |-> <<>>]
    ELSE IF ~(\A i \in 1..Len(lst) : lst[i].t = "obj") THEN [ok |-> FALSE, keys |-> <<>>]
    ELSE LET keys == DictKeys(lst[1])
             KeySet(d) == {d.kv[j][1] : j \in 1..Len(d.kv)}
         IN  IF \E i \in 1..Len(lst) : KeySet(lst[i]) # KeySet(lst[1])
             THEN [ok |-> FALSE, keys |-> <<>>]
             ELSE [ok |-> TRUE, keys |-> keys]

\* The result is the pair (flag, keys) of the code, as a record.
_all_dicts_with_same_keys(lst) ==
    IF lst = <<>> THEN [ok |-> FALSE, keys |-> <<>>]
    ELSE IF ~(\A i \in 1..Len(lst) : lst[i].t = "obj") THEN [ok |-> FALSE, keys |-> <<>>]
    ELSE LET keys == DictKeys(lst[1])
         IN  IF \E i \in 1..Len(lst) : DictKeys(lst[i]) # keys
             THEN [ok |-> FALSE, keys |-> <<>>]
             ELSE [ok |-> TRUE, keys |-> keys]

\* _needs_quote without the carriage return in its list
NeedsQuoteNoCR(s) ==
    IF s = <<>> THEN TRUE
    ELSE IF IsSpace(s[1]) \/ IsSpace(s[Len(s)]) THEN TRUE
    ELSE IF \E ch \in {",", "\n", "\""} : \E i \in 1..Len(s) : s[i] = ch THEN TRUE
    ELSE FALSE

\* _needs_quote on the text of a str (its only callers pass a str, so the
\* isinstance guard never answers)
_needs_quote(s) ==
    IF s = <<>> THEN TRUE
    ELSE IF IsSpace(s[1]) \/ IsSpace(s[Len(s)]) THEN TRUE
    ELSE IF \E ch \in {",", "\n", "\r", "\""} : \E i \in 1..Len(s) : s[i] = ch THEN TRUE
    ELSE FALSE

\* _quote_str leaving the double quotes inside as they are
QuoteStrNoEscape(s) == <<"\"">> \o s \o <<"\"">>

_quote_str(s) == <<"\"">> \o Replace(s, <<"\"">>, <<"\\", "\"">>) \o <<"\"">>

(***************************************************************************)
(* json.dumps(v, separators=(itemsep, kvsep)) with ensure_ascii left on,   *)
(* for the characters of the alphabet.                                     *)
(***************************************************************************)
DumpsChar(c) ==
    CASE c = "\"" -> <<"\\", "\"">>
      [] c = "\\" -> <<"\\", "\\">>
      [] c = "\n" -> <<"\\", "n">>
      [] c = "\r" -> <<"\\", "r">>
      [] c = "\t" -> <<"\\", "t">>
      [] OTHER -> <<c>>

RECURSIVE DumpsChars(_)
DumpsChars(s) == IF s = <<>> THEN <<>> ELSE DumpsChar(Head(s)) \o DumpsChars(Tail(s))

DumpsStr(s) == <<"\"">> \o DumpsChars(s) \o <<"\"">>

RECURSIVE Dumps(_, _, _)
Dumps(v, itemsep, kvsep) ==
    CASE v.t = "null" -> <<"n", "u", "l", "l">>
      [] v.t = "bool" -> IF v.b THEN <<"t", "r", "u", "e">> ELSE <<"f", "a", "l", "s", "e">>
      [] v.t = "num" -> IntStr(v.n)
      [] v.t = "str" -> DumpsStr(v.s)
      [] v.t = "arr" ->
            <<"[">> \o Join([i \in 1..Len(v.items) |-> Dumps(v.items[i], itemsep, kvsep)],
                            itemsep) \o <<"]">>
      [] v.t = "obj" ->
            <<"{">> \o Join([i \in 1..Len(v.kv) |->
                                DumpsStr(v.kv[i][1]) \o kvsep
                                    \o Dumps(v.kv[i][2], itemsep, kvsep)],
                            itemsep) \o <<"}">>

_format_value(v) ==
    IF v.t = "null" THEN <<"n", "u", "l", "l">>
    ELSE IF v.t = "bool"
         THEN (IF v.b THEN <<"t", "r", "u", "e">> ELSE <<"f", "a", "l", "s", "e">>)
    ELSE IF v.t = "num" THEN IntStr(v.n)
    ELSE IF v.t = "str" THEN (IF _needs_quote(v.s) THEN _quote_str(v.s) ELSE v.s)
    ELSE _quote_str(Dumps(v, <<",">>, <<":">>))

(***************************************************************************)
(* utils.py: json_to_toon.  The parameter name is None (NoName) or a str.  *)
(* OutLines is the list out_lines of a call (or the one string the call    *)
(* returns directly); an entry that comes from a recursive call is the     *)
(* nested call's whole text.  The values are those of the closed value     *)
(* model, so the last fallback of the function (a value that is neither a  *)
(* dict, a list nor a primitive) is never taken.                           *)
(***************************************************************************)
NoName == [given |-> FALSE, s |-> <<>>]
Name(s) == [given |-> TRUE, s |-> s]

\* NamePart that leaves every name out
NamePartDropped(nm) == <<>>

\* f"{name}" if name else "": None and "" are both falsy
NamePart(nm) == IF nm.given /\ nm.s # <<>> THEN nm.s ELSE <<>>

RECURSIVE json_to_toon(_, _, _)

\* "{" + ",".join(cols) + "}"
TabularHeader(cols) == <<"{">> \o Join(cols, <<",">>) \o <<"}">>

\* TabularRows with the column name repeated in every cell
TabularRowsKeyed(lst, cols, pad) ==
    [i \in 1..Len(lst) |->
        pad \o Join([j \in 1..Len(cols) |->
                        cols[j] \o <<":">> \o _format_value(DictGet(lst[i], cols[j]))],
                    <<",">>)]

\* the row lines of a tabular array, one per item
TabularRows(lst, cols, pad) ==
    [i \in 1..Len(lst) |->
        pad \o Join([j \in 1..Len(cols) |-> _format_value(DictGet(lst[i], cols[j]))],
                    <<",">>)]

\* InlineValues with the elements from the last to the first
InlineValuesReversed(lst) ==
    Join([i \in 1..Len(lst) |-> _format_value(lst[Len(lst) + 1 - i])], <<",">>)

\* ",".join(vals) with vals = [_format_value(el) for el in lst]
InlineValues(lst) == Join([i \in 1..Len(lst) |-> _format_value(lst[i])], <<",">>)

\* MixedElems with the primitive elements at the indent of the header
MixedElemsFlat(lst, ind) ==
    [i \in 1..Len(lst) |->
        IF _is_primitive(lst[i]) THEN Spaces(ind) \o _format_value(lst[i])
        ELSE json_to_toon(lst[i], NoName, ind + 2)]

\* MixedElems with the elements from the last to the first
MixedElemsReversed(lst, ind) ==
    [i \in 1..Len(lst) |->
        IF _is_primitive(lst[Len(lst) + 1 - i])
        THEN Spaces(ind + 2) \o _format_value(lst[Len(lst) + 1 - i])
        ELSE json_to_toon(lst[Len(lst) + 1 - i], NoName, ind + 2)]

\* the element lines of a mixed array
MixedElems(lst, ind) ==
    [i \in 1..Len(lst) |->
        IF _is_primitive(lst[i]) THEN Spaces(ind + 2) \o _format_value(lst[i])
        ELSE json_to_toon(lst[i], NoName, ind + 2)]

\* what one iteration of "for k, v in data.items()" appends to out_lines
DictEntries(k, v, ind) ==
    LET pad == Spaces(ind) IN
    IF v.t = "obj" THEN << pad \o k \o <<":">>, json_to_toon(v, NoName, ind + 2) >>
    ELSE IF v.t = "arr" THEN
        LET lst == v.items
            n == IntStr(Len(lst))
            tab == _all_dicts_with_same_keys(lst)
        IN  IF Len(lst) = 0 THEN << pad \o k \o <<"[", "0", "]", ":">> >>
            ELSE IF tab.ok THEN
                << pad \o k \o <<"[">> \o n \o <<"]">> \o TabularHeader(tab.keys) \o <<":">> >>
                    \o TabularRows(lst, tab.keys, pad)
            ELSE IF \A i \in 1..Len(lst) : _is_primitive(lst[i]) THEN
                << pad \o k \o <<"[">> \o n \o <<"]", ":", " ">>
                    \o InlineValues(lst) >>
            ELSE << pad \o k \o <<"[">> \o n \o <<"]", ":">> >> \o MixedElems(lst, ind)
    ELSE << pad \o k \o <<":", " ">> \o _format_value(v) >>

\* out_lines of a dict: the entries of its pairs, in the order of data.items()
RECURSIVE DictLines(_, _)

\* DictLines walking the pairs from the last to the first
DictLinesReversed(kv, ind) ==
    IF kv = <<>> THEN <<>>
    ELSE DictLines(Tail(kv), ind) \o DictEntries(kv[1][1], kv[1][2], ind)

DictLines(kv, ind) ==
    IF kv = <<>> THEN <<>>
    ELSE DictEntries(kv[1][1], kv[1][2], ind) \o DictLines(Tail(kv), ind)

\* ListLines without the branch for the empty list
ListLinesNoEmptyCase(lst, nm, ind) ==
    LET pad == Spaces(ind)
        name_part == NamePart(nm)
        n == IntStr(Len(lst))
        tab == _all_dicts_with_same_keys(lst)
    IN  IF tab.ok THEN
            << pad \o name_part \o <<"[">> \o n \o <<"]">> \o TabularHeader(tab.keys)
                   \o <<":">> >>
                \o TabularRows(lst, tab.keys, pad)
        ELSE IF \A i \in 1..Len(lst) : _is_primitive(lst[i]) THEN
            << pad \o name_part \o <<"[">> \o n \o <<"]", ":", " ">>
                \o InlineValues(lst) >>
        ELSE << pad \o name_part \o <<"[">> \o n \o <<"]", ":">> >> \o MixedElems(lst, ind)

\* out_lines of a list (or the one string returned for an empty list)
ListLines(lst, nm, ind) ==
    LET pad == Spaces(ind)
        name_part == NamePart(nm)
        n == IntStr(Len(lst))
        tab == _all_dicts_with_same_keys(lst)
    IN  IF Len(lst) = 0 THEN << pad \o name_part \o <<"[", "0", "]", ":">> >>
        ELSE IF tab.ok THEN
            << pad \o name_part \o <<"[">> \o n \o <<"]">> \o TabularHeader(tab.keys)
                   \o <<":">> >>
                \o TabularRows(lst, tab.keys, pad)
        ELSE IF \A i \in 1..Len(lst) : _is_primitive(lst[i]) THEN
            << pad \o name_part \o <<"[">> \o n \o <<"]", ":", " ">>
                \o InlineValues(lst) >>
        ELSE << pad \o name_part \o <<"[">> \o n \o <<"]", ":">> >> \o MixedElems(lst, ind)

\* the string returned for a primitive
PrimitiveLine(v, nm, ind) ==
    IF nm.given /\ nm.s # <<>>
    THEN Spaces(ind) \o nm.s \o <<":", " ">> \o _format_value(v)
    ELSE Spaces(ind) \o _format_value(v)

OutLines(v, nm, ind) ==
    IF v.t = "obj" THEN DictLines(v.kv, ind)
    ELSE IF v.t = "arr" THEN ListLines(v.items, nm, ind)
    ELSE << PrimitiveLine(v, nm, ind) >>

json_to_toon(v, nm, ind) == Join(OutLines(v, nm, ind), <<"\n">>)

(***************************************************************************)
(* json.loads(s), the standard library's decoder, on the alphabet: the     *)
(* scanner, scanstring (strict), JSONObject and JSONArray.  Numbers are    *)
(* integer literals; fractions, exponents, NaN, Infinity and \uXXXX use    *)
(* characters that no input of the model holds.  A result is               *)
(* [ok, val, pos]: ok is FALSE where the decoder raises JSONDecodeError,   *)
(* pos is the index after the value.                                       *)
(***************************************************************************)
ParseFail == [ok |-> FALSE, val |-> PyNone, pos |-> 0]
ParseOk(v, p) == [ok |-> TRUE, val |-> v, pos |-> p]

\* s[i:i+1], 1-based
CharAt(s, i) == IF i <= Len(s) THEN s[i] ELSE ""

\* WHITESPACE.match(s, i).end()
RECURSIVE SkipWs(_, _)
SkipWs(s, i) ==
    IF i <= Len(s) /\ s[i] \in {" ", "\t", "\n", "\r"} THEN SkipWs(s, i + 1) ELSE i

IsDigit(c) == c \in {"0", "1", "2", "3", "4", "5", "6", "7", "8", "9"}

DigitVal(c) == CHOOSE d \in 0..9 : Digit(d) = c

\* the characters a backslash escape names
Unescape(e) ==
    CASE e = "\"" -> "\""
      [] e = "\\" -> "\\"
      [] e = "/" -> "/"
      [] e = "b" -> "<BS>"
      [] e = "f" -> "\f"
      [] e = "n" -> "\n"
      [] e = "r" -> "\r"
      [] e = "t" -> "\t"
      [] OTHER -> ""

\* scanstring(s, i): i is the index after the opening quote
RECURSIVE ScanString(_, _, _)
ScanString(s, i, acc) ==
    IF i > Len(s) THEN ParseFail
    ELSE IF s[i] = "\"" THEN ParseOk(PyStr(acc), i + 1)
    ELSE IF s[i] \in {"\n", "\r", "\t"} THEN ParseFail
    ELSE IF s[i] # "\\" THEN ScanString(s, i + 1, Append(acc, s[i]))
    ELSE IF i + 1 > Len(s) \/ Unescape(CharAt(s, i + 1)) = "" THEN ParseFail
    ELSE ScanString(s, i + 2, Append(acc, Unescape(s[i + 1])))

\* the digits of an integer literal from i on, with the value read so far
RECURSIVE ScanDigits(_, _, _)
ScanDigits(s, i, n) ==
    IF i <= Len(s) /\ IsDigit(s[i]) THEN ScanDigits(s, i + 1, 10 * n + DigitVal(s[i]))
    ELSE [n |-> n, pos |-> i]

\* NUMBER_RE: -?(0|[1-9][0-9]*)
ScanNumber(s, i) ==
    LET neg == CharAt(s, i) = "-"
        j == IF neg THEN i + 1 ELSE i
    IN  IF ~IsDigit(CharAt(s, j)) THEN ParseFail
        ELSE IF s[j] = "0" THEN ParseOk(PyInt(0), j + 1)
        ELSE LET d == ScanDigits(s, j, 0)
             IN  ParseOk(PyInt(IF neg THEN 0 - d.n ELSE d.n), d.pos)

\* dict(pairs): a repeated key keeps its first place and takes the last value
DictSet(kv, k, v) ==
    IF \E i \in 1..Len(kv) : kv[i][1] = k
    THEN [i \in 1..Len(kv) |-> IF kv[i][1] = k THEN <<k, v>> ELSE kv[i]]
    ELSE Append(kv, <<k, v>>)

RECURSIVE ParseValue(_, _)
RECURSIVE ArrayLoop(_, _, _)
RECURSIVE ObjectLoop(_, _, _)

\* JSONArray: i is the index after "["
ParseArray(s, i) ==
    LET j == SkipWs(s, i)
    IN  IF CharAt(s, j) = "]" THEN ParseOk(PyList(<<>>), j + 1)
        ELSE ArrayLoop(s, j, <<>>)

ArrayLoop(s, j, acc) ==
    LET r == ParseValue(s, j) IN
    IF ~r.ok THEN ParseFail
    ELSE LET k == SkipWs(s, r.pos)
             c == CharAt(s, k)
         IN  IF c = "]" THEN ParseOk(PyList(Append(acc, r.val)), k + 1)
             ELSE IF c = "," THEN ArrayLoop(s, SkipWs(s, k + 1), Append(acc, r.val))
             ELSE ParseFail

\* JSONObject: i is the index after "{"
ParseObject(s, i) ==
    LET j == SkipWs(s, i)
        c == CharAt(s, j)
    IN  IF c = "}" THEN ParseOk(PyDict(<<>>), j + 1)
        ELSE IF c = "\"" THEN ObjectLoop(s, j + 1, <<>>)
        ELSE ParseFail

\* one "key": value pair and what follows it; i is the index after the key's quote
ObjectLoop(s, i, acc) ==
    LET kr == ScanString(s, i, <<>>) IN
    IF ~kr.ok THEN ParseFail
    ELSE LET c1 == SkipWs(s, kr.pos) IN
         IF CharAt(s, c1) # ":" THEN ParseFail
         ELSE LET vr == ParseValue(s, SkipWs(s, c1 + 1)) IN
              IF ~vr.ok THEN ParseFail
              ELSE LET acc2 == DictSet(acc, kr.val.s, vr.val)
                       e == SkipWs(s, vr.pos)
                       c == CharAt(s, e)
                       q == SkipWs(s, e + 1)
                   IN  IF c = "}" THEN ParseOk(PyDict(acc2), e + 1)
                       ELSE IF c = "," /\ CharAt(s, q) = "\"" THEN ObjectLoop(s, q + 1, acc2)
                       ELSE ParseFail

\* scan_once(s, i)
ParseValue(s, i) ==
    LET c == CharAt(s, i) IN
    IF c = "\"" THEN ScanString(s, i + 1, <<>>)
    ELSE IF c = "{" THEN ParseObject(s, i + 1)
    ELSE IF c = "[" THEN ParseArray(s, i + 1)
    ELSE IF HasAt(s, <<"n", "u", "l", "l">>, i) THEN ParseOk(PyNone, i + 4)
    ELSE IF HasAt(s, <<"t", "r", "u", "e">>, i) THEN ParseOk(PyBool(TRUE), i + 4)
    ELSE IF HasAt(s, <<"f", "a", "l", "s", "e">>, i) THEN ParseOk(PyBool(FALSE), i + 5)
    ELSE IF IsDigit(c) \/ c = "-" THEN ScanNumber(s, i)
    ELSE ParseFail

\* json.loads(s): one value, whitespace around it, nothing after it
Loads(s) ==
    LET r == ParseValue(s, SkipWs(s, 1)) IN
    IF r.ok /\ SkipWs(s, r.pos) = Len(s) + 1 THEN r ELSE ParseFail

(***************************************************************************)
(* utils.py: convert_json_to_toon.  A result is [st, out]: st is "ok" with *)
(* the returned text, or "raise" where json.loads raises (nothing is       *)
(* returned).                                                              *)
(***************************************************************************)
NoResult == [st |-> "none", out |-> <<>>]
Returned(t) == [st |-> "ok", out |-> t]
Raised == [st |-> "raise", out |-> <<>>]

convert_json_to_toon(obj_or_json) ==
    IF obj_or_json.t = "str"
    THEN LET parsed == Loads(obj_or_json.s)
         IN  IF parsed.ok THEN Returned(json_to_toon(parsed.val, NoName, 0)) ELSE Raised
    ELSE Returned(json_to_toon(obj_or_json, NoName, 0))

(***************************************************************************)
(* The inputs.  A call of json_to_toon gets a value, a name and an indent; *)
(* a call of convert_json_to_toon gets either the value itself or a text.  *)
(***************************************************************************)
\* the sequences over S of length at most n
SeqsUpTo(S, n) == UNION {[1..k -> S] : k \in 0..n}

\* the sequences over S without a repeated element: the key orders of a dict
KeySeqs(S) == {q \in SeqsUpTo(S, Cardinality(S)) : \A i, j \in 1..Len(q) : q[i] = q[j] => i = j}

StrChars == {"a", " ", ",", "\n", "\r", "\t", "\"", "\\", ":", "{", "["}

Strs == SeqsUpTo(StrChars, MaxStrLen)

Scalars ==
    {PyNone, PyBool(TRUE), PyBool(FALSE)}
        \cup {PyInt(n) : n \in {-3, 0, 5, 12}}
        \cup {PyStr(s) : s \in Strs}

KeyA == <<"a">>
KeyId == <<"i", "d">>
KeyK == <<"k">>

\* the cells of table rows: scalars, and a list where a scalar is expected
Cells == {PyInt(1), PyStr(<<"x">>), PyStr(<<"a", ",", "b">>), PyList(<<PyInt(7)>>)}

RowObjs ==
    {PyDict(<<>>)}
        \cup {PyDict(<< <<k, c>> >>) : k \in {KeyA, KeyId}, c \in Cells}
        \cup {PyDict(<< <<q[1], c[1]>>, <<q[2], c[2]>> >>) :
                 q \in {<<KeyA, KeyId>>, <<KeyId, KeyA>>},
                 c \in {<<PyInt(1), PyStr(<<"x">>)>>, <<PyStr(<<"a", ",", "b">>), PyInt(1)>>}}

Elems == RowObjs \cup {PyInt(5), PyStr(<<" ", "a">>), PyList(<<>>)}

Arrays == {PyList(q) : q \in SeqsUpTo(Elems, MaxArrLen)}

\* the elements of the arrays of primitives: one of each type
PrimElems ==
    {PyNone, PyBool(TRUE), PyInt(-3), PyStr(<<"a", ",">>)}

\* long enough to hold a string, a number, a boolean and null together
PrimArrays == {PyList(q) : q \in SeqsUpTo(PrimElems, MaxArrLen + 2)}

\* the elements of the mixed arrays: primitives, arrays (inline and mixed
\* themselves) and objects
BlockElems ==
    {PyStr(<<"a", ",">>), PyBool(TRUE),
     PyList(<<PyInt(1), PyInt(2)>>), PyList(<<PyInt(1), PyList(<<>>)>>),
     PyDict(<< <<KeyA, PyInt(1)>> >>), PyDict(<<>>)}

BlockArrays == {PyList(q) : q \in SeqsUpTo(BlockElems, MaxArrLen + 1)}

\* children of the objects with several keys: one of each shape
Kids ==
    { PyInt(5), PyStr(<<" ", "a">>), PyList(<<>>), PyDict(<<>>),
      PyList(<<PyInt(1), PyStr(<<"x">>)>>),
      PyList(<<PyDict(<< <<KeyA, PyInt(1)>> >>), PyDict(<< <<KeyA, PyStr(<<"x">>)>> >>)>>),
      PyList(<<PyDict(<<>>)>>),
      PyList(<<PyInt(1), PyDict(<<>>)>>),
      PyDict(<< <<KeyA, PyDict(<<>>)>> >>) }

SmallKids == {PyInt(5), PyList(<<>>), PyDict(<<>>), PyList(<<PyDict(<<>>)>>),
              PyDict(<< <<KeyId, PyInt(1)>> >>)}

\* the dicts with the keys of q, in that order, and children from K
DictsOver(q, K) == {PyDict([i \in 1..Len(q) |-> <<q[i], c[i]>>]) : c \in [1..Len(q) -> K]}

Objs2 == UNION {DictsOver(q, Kids) : q \in KeySeqs({KeyA, KeyId})}

Objs3 == UNION {DictsOver(q, SmallKids) : q \in {r \in KeySeqs({KeyA, KeyId, KeyK}) : Len(r) = 3}}

Nested ==
    {PyDict(<< <<KeyK, o>> >>) : o \in Objs2}
        \cup {PyList(<<PyInt(5), o>>) : o \in Objs2}
        \cup {PyDict(<< <<KeyK, PyDict(<< <<KeyA, o>> >>)>> >>) : o \in Objs2}

EncInputs ==
    Scalars \cup Arrays \cup {PyDict(<< <<KeyK, v>> >>) : v \in Arrays \cup Scalars}
        \cup Objs2 \cup Objs3 \cup Nested
        \cup PrimArrays \cup {PyDict(<< <<KeyK, v>> >>) : v \in PrimArrays}
        \cup BlockArrays \cup {PyDict(<< <<KeyK, v>> >>) : v \in BlockArrays}

ConvInputs == Scalars \cup {PyList(q) : q \in SeqsUpTo(Elems, 1)} \cup Objs2

\* json.dumps(v) and json.dumps(v, separators=(",", ":"))
DumpsDefault(v) == Dumps(v, <<",", " ">>, <<":", " ">>)
DumpsCompact(v) == Dumps(v, <<",">>, <<":">>)

\* the arrays encoded under a name, as the child of an object and with no
\* name: empty, tabular, all-primitive and mixed ones
NamedElems ==
    {PyInt(5), PyStr(<<"a", ",">>), PyList(<<>>), PyDict(<<>>),
     PyDict(<< <<KeyA, PyInt(1)>> >>),
     PyDict(<< <<KeyA, PyStr(<<"x">>)>>, <<KeyId, PyList(<<PyInt(7)>>)>> >>)}

NamedArrays == {PyList(q) : q \in SeqsUpTo(NamedElems, MaxArrLen)}

\* the names an array is encoded under: keys of one and two characters and
\* the empty key
ArrayKeys == {KeyK, KeyId, <<>>}

KeyDoc == <<"d", "o", "c">>

\* what the glue passes to convert_json_to_toon: an entry of doc_map.json
\* (summary_index_app.py), or the page_content of a retrieved document
\* (app.py), which is a str: a plain text or the JSON text of an object
Records ==
    {PyDict(<< <<KeyId, PyStr(<<"a">>)>>, <<KeyDoc, PyStr(d)>> >>) :
         d \in {<<"x">>, <<"x", "\n", "y">>}}
        \cup {PyDict(<< <<KeyId, PyInt(5)>> >>), PyDict(<<>>)}
        \cup {PyStr(<<"Q", ":", " ", "x">>),
              PyStr(DumpsDefault(PyDict(<< <<KeyId, PyInt(5)>> >>)))}

\* a document cut short by one character
DropLast(s) == SubSeq(s, 1, Len(s) - 1)

(***************************************************************************)
(* The state: the arguments of the calls and what each call gave.          *)
(***************************************************************************)
Init ==
    /\ op \in {"encode", "named", "convert", "glue"}
    /\ data \in (IF op = "encode" THEN EncInputs
                 ELSE IF op = "named" THEN NamedArrays
                 ELSE IF op = "convert" THEN ConvInputs ELSE {PyNone})
    /\ name \in (IF op = "encode" /\ data.t # "obj" THEN {NoName, Name(KeyK)}
                 ELSE IF op = "named" THEN {Name(k) : k \in ArrayKeys}
                 ELSE {NoName})
    /\ indent \in (IF op \in {"encode", "named"} THEN {2 * l : l \in 0..MaxLevel} ELSE {0})
    /\ text \in (IF op = "convert"
                 THEN {DumpsDefault(data), DumpsCompact(data), DropLast(DumpsDefault(data))}
                 ELSE {<<>>})
    /\ encRes = NoResult
    /\ valRes = NoResult
    /\ textRes = NoResult
    /\ wrapRes = NoResult
    /\ bareRes = NoResult
    /\ results \in (IF op = "glue" THEN SeqsUpTo(Records, MaxRecords) ELSE {<<>>})
    /\ served = 0
    /\ context = <<>>
    /\ llmContext = NoResult

\* json_to_toon(data, name, indent)
Encode ==
    /\ op \in {"encode", "named"}
    /\ encRes.st = "none"
    /\ encRes' = Returned(json_to_toon(data, name, indent))
    /\ UNCHANGED <<data, name, indent, text, op, valRes, textRes, namedVars, glueVars>>

\* convert_json_to_toon(data): the caller passes the value it holds
ConvertValue ==
    /\ op = "convert"
    /\ valRes.st = "none"
    /\ valRes' = convert_json_to_toon(data)
    /\ UNCHANGED <<data, name, indent, text, op, encRes, textRes, namedVars, glueVars>>

\* convert_json_to_toon(text): the caller passes a text
ConvertText ==
    /\ op = "convert"
    /\ textRes.st = "none"
    /\ textRes' = convert_json_to_toon(PyStr(text))
    /\ UNCHANGED <<data, name, indent, text, op, encRes, valRes, namedVars, glueVars>>

\* json_to_toon({name: data}, indent=indent): the array as the child of an
\* object under the key that Encode passes as the name
EncodeAsChild ==
    /\ op = "named"
    /\ wrapRes.st = "none"
    /\ wrapRes' = Returned(json_to_toon(PyDict(<< <<name.s, data>> >>), NoName, indent))
    /\ UNCHANGED <<data, name, indent, text, op, encRes, valRes, textRes, bareRes, glueVars>>

\* json_to_toon(data, indent=indent): the array with no name supplied
EncodeUnnamed ==
    /\ op = "named"
    /\ bareRes.st = "none"
    /\ bareRes' = Returned(json_to_toon(data, NoName, indent))
    /\ UNCHANGED <<data, name, indent, text, op, encRes, valRes, textRes, wrapRes, glueVars>>

\* "\n" + "-" * 10
Separator == <<"\n">> \o [i \in 1..10 |-> "-"]

\* one pass of "for res in results": the encoding of the next record and the
\* separator are added to context; where convert_json_to_toon raises, the
\* exception leaves the loop and no context reaches the LLM
GlueStep ==
    /\ op = "glue"
    /\ llmContext.st = "none"
    /\ served < Len(results)
    /\ LET r == convert_json_to_toon(results[served + 1]) IN
       IF r.st = "ok"
       THEN /\ context' = context \o r.out \o Separator
            /\ served' = served + 1
            /\ UNCHANGED llmContext
       ELSE /\ llmContext' = Raised
            /\ UNCHANGED <<context, served>>
    /\ UNCHANGED <<data, name, indent, text, op, encRes, valRes, textRes, namedVars, results>>

\* rag.get_answer(user_query, context) after the loop: context goes into
\* the system prompt as it stands
GetAnswer ==
    /\ op = "glue"
    /\ llmContext.st = "none"
    /\ served = Len(results)
    /\ llmContext' = Returned(context)
    /\ UNCHANGED <<data, name, indent, text, op, encRes, valRes, textRes, namedVars,
                   results, served, context>>

Next == Encode \/ ConvertValue \/ ConvertText \/ EncodeAsChild \/ EncodeUnnamed
            \/ GlueStep \/ GetAnswer

Spec == Init /\ [][Next]_vars

(***************************************************************************)
(* What the properties are stated with.                                    *)
(***************************************************************************)
\* The calls of json_to_toon that one call makes, itself included: a dict
\* child that is a dict and a complex element of a mixed array are encoded
\* by a nested call at ind + 2.
RECURSIVE Calls(_, _, _)
ListCalls(lst, ind) ==
    IF lst = <<>> \/ _all_dicts_with_same_keys(lst).ok
           \/ (\A i \in 1..Len(lst) : _is_primitive(lst[i]))
    THEN {}
    ELSE UNION {Calls(lst[i], NoName, ind + 2) :
                    i \in {j \in 1..Len(lst) : ~_is_primitive(lst[j])}}

Calls(v, nm, ind) ==
    {[v |-> v, nm |-> nm, ind |-> ind]}
        \cup (IF v.t = "obj"
              THEN UNION {(IF v.kv[i][2].t = "obj" THEN Calls(v.kv[i][2], NoName, ind + 2)
                           ELSE IF v.kv[i][2].t = "arr" THEN ListCalls(v.kv[i][2].items, ind)
                           ELSE {}) : i \in 1..Len(v.kv)}
              ELSE IF v.t = "arr" THEN ListCalls(v.items, ind)
              ELSE {})

\* the calls made while encoding the current input
AllCalls == Calls(data, name, indent)

\* the shapes of an array, as the specification words them
Uniform(items) ==
    /\ Len(items) >= 1
    /\ \A i \in 1..Len(items) :
          /\ items[i].t = "obj"
          /\ Len(items[i].kv) = Len(items[1].kv)
          /\ \A j \in 1..Len(items[i].kv) : items[i].kv[j][1] = items[1].kv[j][1]

AllPrimitive(items) == \A i \in 1..Len(items) : items[i].t \notin {"obj", "arr"}

\* how many entries a dict child adds to out_lines
EntryCount(v) ==
    IF v.t = "obj" THEN 2
    ELSE IF v.t # "arr" THEN 1
    ELSE IF Len(v.items) = 0 THEN 1
    ELSE IF Uniform(v.items) THEN 1 + Len(v.items)
    ELSE IF AllPrimitive(v.items) THEN 1
    ELSE 1 + Len(v.items)

\* the number of entries before those of the i-th pair
RECURSIVE Offset(_, _)
Offset(kv, i) == IF i = 1 THEN 0 ELSE Offset(kv, i - 1) + EntryCount(kv[i - 1][2])

\* the entries of the i-th pair of dict d in the out_lines of its call at ind
Segment(d, ind, i) ==
    LET lines == OutLines(d, NoName, ind)
        from == Offset(d.kv, i) + 1
        to == Offset(d.kv, i) + EntryCount(d.kv[i][2])
    IN  IF to <= Len(lines) THEN SubSeq(lines, from, to) ELSE <<>>

\* KEY[N]{c1,...,cm}: and the N rows v1,...,vm, each behind ind spaces
TableLines(key, items, ind) ==
    << Spaces(ind) \o key \o <<"[">> \o NatStr(Len(items)) \o <<"]", "{">>
           \o Join(DictKeys(items[1]), <<",">>) \o <<"}", ":">> >>
        \o [i \in 1..Len(items) |->
               Spaces(ind) \o Join([j \in 1..Len(items[i].kv) |->
                                       _format_value(items[i].kv[j][2])], <<",">>)]

\* C1: every array of N >= 1 objects with one ordered key sequence, as a
\* dict child or as the array of a call, is rendered as the one header
\* line KEY[N]{c1,...,cm}: followed by exactly N rows, row i holding the
\* formatted values of element i in column order joined by commas, with no
\* key name in a row; for a top-level array or a single-pair dict that is
\* the whole returned text.
C1_TabularBlock ==
    encRes.st = "ok" =>
        /\ \A c \in AllCalls :
              /\ c.v.t = "arr" /\ Uniform(c.v.items) =>
                    OutLines(c.v, c.nm, c.ind) = TableLines(NamePart(c.nm), c.v.items, c.ind)
              /\ c.v.t = "obj" =>
                    \A i \in 1..Len(c.v.kv) :
                        c.v.kv[i][2].t = "arr" /\ Uniform(c.v.kv[i][2].items) =>
                            Segment(c.v, c.ind, i)
                                = TableLines(c.v.kv[i][1], c.v.kv[i][2].items, c.ind)
        /\ data.t = "arr" /\ Uniform(data.items) =>
              encRes.out = Join(TableLines(NamePart(name), data.items, indent), <<"\n">>)
        /\ data.t = "obj" /\ Len(data.kv) = 1 /\ data.kv[1][2].t = "arr"
               /\ Uniform(data.kv[1][2].items) =>
              encRes.out
                  = Join(TableLines(data.kv[1][1], data.kv[1][2].items, indent), <<"\n">>)

\* a table of two rows and two columns under a key has been encoded at
\* indent 2
C1_Witness ==
    /\ encRes.st = "ok"
    /\ indent = 2
    /\ data.t = "obj"
    /\ Len(data.kv) = 1
    /\ data.kv[1][2].t = "arr"
    /\ Uniform(data.kv[1][2].items)
    /\ Len(data.kv[1][2].items) = 2
    /\ Len(data.kv[1][2].items[1].kv) = 2

\* the arrays the encoder classifies while encoding the current input, each
\* with the key it is rendered under and the indent of the call that holds it
ArraysSeen ==
    {[key |-> NamePart(c.nm), items |-> c.v.items, ind |-> c.ind,
      lines |-> OutLines(c.v, c.nm, c.ind)] : c \in {x \in AllCalls : x.v.t = "arr"}}
        \cup UNION {{[key |-> c.v.kv[i][1], items |-> c.v.kv[i][2].items, ind |-> c.ind,
                      lines |-> Segment(c.v, c.ind, i)] :
                         i \in {j \in 1..Len(c.v.kv) : c.v.kv[j][2].t = "arr"}} :
                    c \in {x \in AllCalls : x.v.t = "obj"}}

\* KEY[N]:
BlockHeader(key, n, ind) == Spaces(ind) \o key \o <<"[">> \o NatStr(n) \o <<"]", ":">>

\* an array of objects one of which departs from the keys of the first
BrokenTable(items) ==
    /\ Len(items) >= 2
    /\ \A i \in 1..Len(items) : items[i].t = "obj"
    /\ \E i \in 2..Len(items) : DictKeys(items[i]) # DictKeys(items[1])

\* C2: _all_dicts_with_same_keys answers yes, with the keys of the first
\* element, exactly for a non-empty array of objects that all have the key
\* sequence of the first (same keys, same order); an array of objects one
\* of which has another key sequence is rendered whole as the block
\* KEY[N]: followed by one nested encoding per element, with no table
\* header and no row.
C2_TabularDetectionExact ==
    encRes.st = "ok" =>
        \A a \in ArraysSeen :
            /\ _all_dicts_with_same_keys(a.items).ok <=> Uniform(a.items)
            /\ Uniform(a.items) =>
                  _all_dicts_with_same_keys(a.items).keys = DictKeys(a.items[1])
            /\ BrokenTable(a.items) =>
                  a.lines = << BlockHeader(a.key, Len(a.items), a.ind) >>
                                \o [i \in 1..Len(a.items) |->
                                       json_to_toon(a.items[i], NoName, a.ind + 2)]

\* an array of two objects with the same two keys in swapped order has been
\* encoded
C2_Witness ==
    /\ encRes.st = "ok"
    /\ data.t = "arr"
    /\ Len(data.items) = 2
    /\ BrokenTable(data.items)
    /\ Len(data.items[1].kv) = 2
    /\ DictKeys(data.items[2]) = <<data.items[1].kv[2][1], data.items[1].kv[1][1]>>

\* the start of the line that leads the entries of a pair: KEY: or KEY[
Leader(key, child, ind) ==
    Spaces(ind) \o key \o (IF child.t = "arr" THEN <<"[">> ELSE <<":">>)

\* the index in Join(lines, "\n") at which entry j starts
RECURSIVE TextPos(_, _)
TextPos(lines, j) == IF j = 1 THEN 1 ELSE TextPos(lines, j - 1) + Len(lines[j - 1]) + 1

\* C3: in every call on a dict, at any depth, the entries of out_lines are
\* those of the pairs in insertion order: pair i leads with its line KEY:
\* or KEY[ right after the entries of pairs 1..i-1, and nothing is left
\* over, so no key is reordered, dropped or duplicated; in the returned
\* text of a top-level dict the leading lines start at the matching places.
C3_KeyOrderPreserved ==
    encRes.st = "ok" =>
        /\ \A c \in {x \in AllCalls : x.v.t = "obj"} :
              LET lines == OutLines(c.v, c.nm, c.ind)
                  m == Len(c.v.kv)
              IN  /\ Len(lines) = (IF m = 0 THEN 0
                                   ELSE Offset(c.v.kv, m) + EntryCount(c.v.kv[m][2]))
                  /\ \A i \in 1..m :
                        /\ Offset(c.v.kv, i) + 1 <= Len(lines)
                        /\ HasAt(lines[Offset(c.v.kv, i) + 1],
                                 Leader(c.v.kv[i][1], c.v.kv[i][2], c.ind), 1)
        /\ data.t = "obj" =>
              \A i \in 1..Len(data.kv) :
                  HasAt(encRes.out, Leader(data.kv[i][1], data.kv[i][2], indent),
                        TextPos(OutLines(data, name, indent), Offset(data.kv, i) + 1))

\* a dict holding a nested dict of two keys has been encoded
C3_Witness ==
    /\ encRes.st = "ok"
    /\ data.t = "obj"
    /\ \E c \in AllCalls : c.ind = indent + 2 /\ c.v.t = "obj" /\ Len(c.v.kv) = 2

\* the characters of a text
Chars(s) == {s[i] : i \in 1..Len(s)}

\* the quoting rule, as the specification words it
MustQuote(s) ==
    \/ Len(s) = 0
    \/ s[1] \in {" ", "\t", "\n", "\r"}
    \/ s[Len(s)] \in {" ", "\t", "\n", "\r"}
    \/ Chars(s) \cap {",", "\r", "\n", "\""} # {}

\* NAME: in front of a scalar, when the call has a name
NamePrefix(nm) == IF NamePart(nm) = <<>> THEN <<>> ELSE NamePart(nm) \o <<":", " ">>

\* the text after the first n characters
Drop(s, n) == SubSeq(s, n + 1, Len(s))

\* the scalar lines of the dicts being encoded: the text before the value,
\* the value, and the line itself
ScalarLines ==
    UNION {{[pre |-> Spaces(c.ind) \o c.v.kv[i][1] \o <<":", " ">>,
             v |-> c.v.kv[i][2],
             entries |-> Segment(c.v, c.ind, i)] :
                i \in {j \in 1..Len(c.v.kv) : c.v.kv[j][2].t \notin {"obj", "arr"}}} :
           c \in {x \in AllCalls : x.v.t = "obj"}}

\* line is pre followed by s as it is where s needs no quotes, and by s
\* between double quotes where it does
QuotedAsRuled(line, pre, s) ==
    /\ HasAt(line, pre, 1)
    /\ ~MustQuote(s) => Drop(line, Len(pre)) = s
    /\ MustQuote(s) =>
          LET q == Drop(line, Len(pre))
          IN  Len(q) >= Len(s) + 2 /\ q[1] = "\"" /\ q[Len(q)] = "\""

\* C4: _needs_quote(s) holds exactly when s is empty, starts or ends with
\* whitespace, or holds a comma, a carriage return, a line feed or a double
\* quote; every other string, a colon, brace or bracket in it or not, is
\* rendered as itself, and a string that needs quoting is rendered between
\* double quotes.
C4_QuotingBoundary ==
    encRes.st = "ok" =>
        /\ data.t = "str" =>
              /\ _needs_quote(data.s) <=> MustQuote(data.s)
              /\ QuotedAsRuled(encRes.out, Spaces(indent) \o NamePrefix(name), data.s)
        /\ \A l \in {x \in ScalarLines : x.v.t = "str"} :
              /\ _needs_quote(l.v.s) <=> MustQuote(l.v.s)
              /\ Len(l.entries) = 1
              /\ QuotedAsRuled(l.entries[1], l.pre, l.v.s)

\* a string with a carriage return between two letters has been encoded
C4_Witness ==
    /\ encRes.st = "ok"
    /\ data = PyStr(<<"a", "\r", "a">>)

\* s with a backslash in front of every double quote
RECURSIVE Escaped(_)
Escaped(s) ==
    IF s = <<>> THEN <<>>
    ELSE (IF s[1] = "\"" THEN <<"\\", "\"">> ELSE <<s[1]>>) \o Escaped(Tail(s))

\* t is the decimal text of the integer n
IsDecimalOf(t, n) ==
    LET digits == IF n < 0 THEN Drop(t, 1) ELSE t
    IN  /\ n < 0 => Len(t) >= 1 /\ t[1] = "-"
        /\ Len(digits) >= 1
        /\ \A i \in 1..Len(digits) : IsDigit(digits[i])
        /\ Len(digits) > 1 => digits[1] # "0"
        /\ ScanDigits(digits, 1, 0).n = (IF n < 0 THEN 0 - n ELSE n)

\* t is the scalar v as the specification's formatScalar renders it
IsScalarText(t, v) ==
    CASE v.t = "null" -> t = <<"n", "u", "l", "l">>
      [] v.t = "bool" -> t = (IF v.b THEN <<"t", "r", "u", "e">>
                              ELSE <<"f", "a", "l", "s", "e">>)
      [] v.t = "num" -> IsDecimalOf(t, v.n)
      [] v.t = "str" -> t = (IF MustQuote(v.s) THEN <<"\"">> \o Escaped(v.s) \o <<"\"">>
                             ELSE v.s)
      [] OTHER -> FALSE

\* C5: a primitive child of a dict, at any depth, adds the one line
\* KEY: VALUE at the indent of its call, where VALUE is null for None, true
\* or false for a bool, the decimal text for a number, and for a string the
\* string itself, or, where it needs quoting, the string between double
\* quotes with a backslash before each double quote inside; for a dict of
\* one pair that line is the returned text.
C5_ScalarPassthrough ==
    encRes.st = "ok" =>
        /\ \A l \in ScalarLines :
              /\ Len(l.entries) = 1
              /\ HasAt(l.entries[1], l.pre, 1)
              /\ IsScalarText(Drop(l.entries[1], Len(l.pre)), l.v)
        /\ data.t = "obj" /\ Len(data.kv) = 1 /\ data.kv[1][2].t \notin {"obj", "arr"} =>
              /\ HasAt(encRes.out, Spaces(indent) \o data.kv[1][1] \o <<":", " ">>, 1)
              /\ IsScalarText(Drop(encRes.out, indent + Len(data.kv[1][1]) + 2), data.kv[1][2])

\* a dict whose one child is a string with a double quote inside has been
\* encoded at indent 2
C5_Witness ==
    /\ encRes.st = "ok"
    /\ indent = 2
    /\ data = PyDict(<< <<KeyK, PyStr(<<"a", "\"", "a">>)>> >>)

\* text is a JSON text of the current value, as json.dumps writes it
TextOfData == text \in {DumpsDefault(data), DumpsCompact(data)}

\* C6: convert_json_to_toon gives the same result for a value and for the
\* JSON text of that value, whatever the value (null, boolean, number,
\* string, object or array).
C6_RoundTripInputForms ==
    valRes.st # "none" /\ textRes.st # "none" /\ TextOfData => valRes = textRes

\* Beside C6: for the values that are not strings the two input forms agree.
RoundTripNonString ==
    valRes.st # "none" /\ textRes.st # "none" /\ TextOfData /\ data.t # "str" =>
        valRes = textRes /\ valRes.st = "ok"

\* C7: convert_json_to_toon returns text for every value it is given, a
\* string value included; it raises only for a text that is not valid JSON,
\* and then returns nothing.
C7_TotalOnValues ==
    /\ valRes.st # "none" => valRes.st = "ok"
    /\ textRes.st # "none" /\ TextOfData => textRes.st = "ok"
    /\ textRes.st = "raise" => textRes.out = <<>> /\ ~Loads(text).ok

\* Beside C7: a value that is not a string always gives text, and a text raises exactly when json.loads rejects it.
TotalOnNonStrings ==
    /\ valRes.st # "none" /\ data.t # "str" => valRes.st = "ok"
    /\ textRes.st # "none" /\ TextOfData => textRes.st = "ok"
    /\ textRes.st # "none" => (textRes.st = "raise" <=> ~Loads(text).ok)
    /\ textRes.st = "raise" => textRes.out = <<>>

\* C8: the text json_to_toon returns is its lines joined by newlines and
\* does not end with a newline, for every value, empty objects and arrays
\* of empty objects inside it included.
C8_NoTrailingNewline ==
    encRes.st = "ok" =>
        /\ encRes.out = Join(OutLines(data, name, indent), <<"\n">>)
        /\ encRes.out # <<>> => encRes.out[Len(encRes.out)] # "\n"

\* the last entry of out_lines is empty (an empty dict encoded by a nested
\* call, a row of no columns at indent 0) or is a nested text ending so
EndsBlank(lines) ==
    /\ Len(lines) >= 2
    /\ LET last == lines[Len(lines)]
       IN  last = <<>> \/ last[Len(last)] = "\n"

\* Beside C8: the returned text is the join of out_lines, and
\* it ends with a newline only where the last entry of out_lines is empty
\* or itself ends with a newline.
TrailingNewlineOnlyFromBlank ==
    encRes.st = "ok" =>
        /\ encRes.out = Join(OutLines(data, name, indent), <<"\n">>)
        /\ encRes.out # <<>> /\ encRes.out[Len(encRes.out)] = "\n" =>
              EndsBlank(OutLines(data, name, indent))

\* what each entry of out_lines is expected to be indented by, for the
\* entries a dict child or the array of a call adds at indent ind: at is
\* the number of leading spaces, blk the value whose nested encoding the
\* entry is (or None where the entry is a line of this call)
Line(n) == [at |-> n, nested |-> FALSE, blk |-> PyNone]
Block(n, v) == [at |-> n, nested |-> TRUE, blk |-> v]

Roles(v, ind) ==
    IF v.t = "obj" THEN << Line(ind), Block(ind + 2, v) >>
    ELSE IF v.t # "arr" THEN << Line(ind) >>
    ELSE IF Len(v.items) = 0 THEN << Line(ind) >>
    ELSE IF Uniform(v.items) THEN << Line(ind) >> \o [i \in 1..Len(v.items) |-> Line(ind)]
    ELSE IF AllPrimitive(v.items) THEN << Line(ind) >>
    ELSE << Line(ind) >>
             \o [i \in 1..Len(v.items) |->
                    IF v.items[i].t \in {"obj", "arr"} THEN Block(ind + 2, v.items[i])
                    ELSE Line(ind + 2)]

RECURSIVE DictRoles(_, _)
DictRoles(kv, ind) ==
    IF kv = <<>> THEN <<>> ELSE Roles(kv[1][2], ind) \o DictRoles(Tail(kv), ind)

CallRoles(c) == IF c.v.t = "obj" THEN DictRoles(c.v.kv, c.ind) ELSE Roles(c.v, c.ind)

\* line starts with exactly n spaces: n spaces, then nothing or a character
\* that is not a space
IndentedBy(line, n) ==
    /\ HasAt(line, Spaces(n), 1)
    /\ Len(line) > n => line[n + 1] # " "

EmptyArrayLine(key, ind) == Spaces(ind) \o key \o <<"[", "0", "]", ":">>

\* C10: an empty array under key k is rendered as the one line k[0]: behind
\* the indent of its call, with nothing after the colon and no line after
\* it; an empty array encoded with no name and no indent gives [0]: and
\* a dict of the one pair k: [] gives k[0]: as the whole returned text.
C10_EmptyArray ==
    encRes.st = "ok" =>
        /\ \A a \in {x \in ArraysSeen : x.items = <<>>} :
              a.lines = << EmptyArrayLine(a.key, a.ind) >>
        /\ data = PyList(<<>>) => encRes.out = EmptyArrayLine(NamePart(name), indent)
        /\ data = PyList(<<>>) /\ name = NoName /\ indent = 0 =>
              encRes.out = <<"[", "0", "]", ":">>
        /\ data.t = "obj" /\ Len(data.kv) = 1 /\ data.kv[1][2] = PyList(<<>>) =>
              encRes.out = EmptyArrayLine(data.kv[1][1], indent)

\* the dict of the one pair k: [] has been encoded at indent 2
C10_Witness ==
    /\ encRes.st = "ok"
    /\ indent = 2
    /\ data = PyDict(<< <<KeyK, PyList(<<>>)>> >>)

(***************************************************************************)
(* Arrays of primitives.                                                   *)
(***************************************************************************)
\* KEY[N]: v1,v2,...,vN behind ind spaces
InlineLine(key, items, ind) ==
    Spaces(ind) \o key \o <<"[">> \o NatStr(Len(items)) \o <<"]", ":", " ">>
        \o Join([i \in 1..Len(items) |-> _format_value(items[i])], <<",">>)

\* the types of the elements of an array
TypesOf(items) == {items[i].t : i \in 1..Len(items)}

\* C11: every non-empty array whose elements are all primitives, of one
\* type or of several, as a dict child or as the array of a call, adds
\* exactly one entry to the emitted lines: KEY[N]: v1,v2,...,vN with N the
\* element count and vi the formatted element i, in the original order;
\* for a top-level array or a single-pair dict that entry is the whole
\* returned text.
C11_InlinePrimitiveArray ==
    encRes.st = "ok" =>
        /\ \A a \in ArraysSeen :
              Len(a.items) >= 1 /\ AllPrimitive(a.items) =>
                  a.lines = << InlineLine(a.key, a.items, a.ind) >>
        /\ data.t = "arr" /\ Len(data.items) >= 1 /\ AllPrimitive(data.items) =>
              encRes.out = InlineLine(NamePart(name), data.items, indent)
        /\ data.t = "obj" /\ Len(data.kv) = 1 /\ data.kv[1][2].t = "arr"
               /\ Len(data.kv[1][2].items) >= 1 /\ AllPrimitive(data.kv[1][2].items) =>
              encRes.out = InlineLine(data.kv[1][1], data.kv[1][2].items, indent)

\* an array holding a string, a number, a boolean and null together has
\* been encoded under a key at indent 2
C11_Witness ==
    /\ encRes.st = "ok"
    /\ indent = 2
    /\ data.t = "obj"
    /\ Len(data.kv) = 1
    /\ data.kv[1][2].t = "arr"
    /\ Len(data.kv[1][2].items) = 4
    /\ TypesOf(data.kv[1][2].items) = {"str", "num", "bool", "null"}
    /\ data.kv[1][2].items[1].t = "str"
    /\ data.kv[1][2].items[4].t = "null"

(***************************************************************************)
(* Mixed arrays.                                                           *)
(***************************************************************************)
\* neither empty, nor tabular, nor all-primitive
Mixed(items) == Len(items) >= 1 /\ ~Uniform(items) /\ ~AllPrimitive(items)

\* what element el of a mixed array at ind is rendered as
ElementText(el, ind) ==
    IF el.t \in {"obj", "arr"} THEN json_to_toon(el, NoName, ind + 2)
    ELSE Spaces(ind + 2) \o _format_value(el)

\* KEY[N]: and the renderings of the N elements
BlockLines(key, items, ind) ==
    << BlockHeader(key, Len(items), ind) >>
        \o [i \in 1..Len(items) |-> ElementText(items[i], ind)]

\* C12: every non-empty array that is neither tabular nor all-primitive,
\* as a dict child or as the array of a call, is rendered as the header
\* KEY[N]: followed by exactly N entries, entry i being the formatted
\* element i behind indent + 2 spaces when it is a primitive and the
\* encoding of element i at indent + 2 with no name when it is an object
\* or an array: each element once, in the original order; the returned
\* text of a top-level array or a single-pair dict is those entries joined
\* by newlines.
C12_MixedArrayBlock ==
    encRes.st = "ok" =>
        /\ \A a \in ArraysSeen :
              Mixed(a.items) =>
                  /\ Len(a.lines) = 1 + Len(a.items)
                  /\ a.lines = BlockLines(a.key, a.items, a.ind)
        /\ data.t = "arr" /\ Mixed(data.items) =>
              encRes.out = Join(BlockLines(NamePart(name), data.items, indent), <<"\n">>)
        /\ data.t = "obj" /\ Len(data.kv) = 1 /\ data.kv[1][2].t = "arr"
               /\ Mixed(data.kv[1][2].items) =>
              encRes.out
                  = Join(BlockLines(data.kv[1][1], data.kv[1][2].items, indent), <<"\n">>)

\* an array of a string, a non-empty array and a non-empty object has been
\* encoded under a name at indent 2
C12_Witness ==
    /\ encRes.st = "ok"
    /\ indent = 2
    /\ name = Name(KeyK)
    /\ data.t = "arr"
    /\ Len(data.items) = 3
    /\ data.items[1].t = "str"
    /\ data.items[2].t = "arr" /\ Len(data.items[2].items) = 2
    /\ data.items[3].t = "obj" /\ Len(data.items[3].kv) = 1

(***************************************************************************)
(* A named array and the same array as the child of an object.             *)
(***************************************************************************)
\* which of the four cases an array falls in
ArrayCase(items) ==
    IF Len(items) = 0 THEN "empty"
    ELSE IF Uniform(items) THEN "tabular"
    ELSE IF AllPrimitive(items) THEN "primitive"
    ELSE "mixed"

\* C13: for every array a, key k and indent L, in each of the four array
\* cases, json_to_toon(a, name=k, indent=L) returns exactly the text of
\* json_to_toon({k: a}, indent=L); and json_to_toon(a, indent=L), with no
\* name, returns that text without the key: L spaces, then [N and the rest,
\* where the named text has L spaces, the key, then [N and the same rest.
C13_NamedArrayEqualsChild ==
    /\ encRes.st = "ok" /\ wrapRes.st = "ok" => encRes.out = wrapRes.out
    /\ wrapRes.st = "ok" /\ bareRes.st = "ok" =>
          /\ Len(bareRes.out) > indent
          /\ SubSeq(bareRes.out, 1, indent + 1) = Spaces(indent) \o <<"[">>
          /\ wrapRes.out = Spaces(indent) \o name.s \o Drop(bareRes.out, indent)
    /\ encRes.st = "ok" /\ bareRes.st = "ok" =>
          encRes.out = Spaces(indent) \o name.s \o Drop(bareRes.out, indent)

\* a mixed array has been encoded at indent 2 under a name, as the child
\* of an object under that key, and with no name
C13_Witness ==
    /\ encRes.st = "ok"
    /\ wrapRes.st = "ok"
    /\ bareRes.st = "ok"
    /\ indent = 2
    /\ name = Name(KeyK)
    /\ ArrayCase(data.items) = "mixed"
    /\ Len(data.items) = 2

(***************************************************************************)
(* The context the query glue assembles.                                   *)
(***************************************************************************)
\* the encodings of the retrieved records, in retrieval order
Encodings == [i \in 1..Len(results) |-> convert_json_to_toon(results[i]).out]

\* the separator, as a line
SeparatorLine == <<"-", "-", "-", "-", "-", "-", "-", "-", "-", "-">>

\* the index in the context at which the encoding of record i starts
RECURSIVE StartOf(_)
StartOf(i) ==
    IF i = 1 THEN 1
    ELSE StartOf(i - 1) + Len(Encodings[i - 1]) + 1 + Len(SeparatorLine)

\* the encodings concatenated, each followed by a newline and the dashes
RECURSIVE Assembled(_)
Assembled(n) ==
    IF n = 0 THEN <<>> ELSE Assembled(n - 1) \o Encodings[n] \o <<"\n">> \o SeparatorLine

\* C14: the context handed to the LLM is the encodings of the retrieved
\* records, in retrieval order, with the separator line ---------- between
\* one encoding and the next: the separator on a line of its own, each
\* encoding starting on a line of its own.
C14_ContextAssembly ==
    llmContext.st = "ok" =>
        llmContext.out = Join(Encodings, <<"\n">> \o SeparatorLine \o <<"\n">>)

\* the part of C14 about line starts alone: the encoding of every record
\* after the first starts right after a newline
EncodingsStartOwnLine ==
    llmContext.st = "ok" =>
        \A i \in 2..Len(results) : llmContext.out[StartOf(i) - 1] = "\n"

\* what the glue does hand over: every record is encoded once, in retrieval
\* order, and each encoding, the last one too, is followed by a newline
\* and the dashes, with nothing after the dashes
ContextAsBuilt ==
    /\ llmContext.st = "ok" => llmContext.out = Assembled(Len(results))
    /\ llmContext.st = "none" => context = Assembled(served)
    /\ llmContext.st = "raise" =>
          /\ served < Len(results)
          /\ convert_json_to_toon(results[served + 1]).st = "raise"

====
